---- MODULE Spec2Model ----
(***************************************************************************)
(* A model of fastanvil's region decoder (RegionBuffer over a seekable     *)
(* byte source), the chunk meta codec, the Dimension cache and the         *)
(* directory loader's listing.                                             *)
(***************************************************************************)
EXTENDS Integers, Sequences, FiniteSets, TLC

VARIABLES
    data,             \* RegionBuffer.data: the backing byte source (contents, length)
    cursor,           \* RegionBuffer.data: the source's read/seek position
    overflow_checks,  \* build profile: TRUE = integer overflow panics, FALSE = it wraps
    last,             \* the decoder operation that ran last, its arguments and result
    meta_in,          \* ChunkMeta::new: the bytes handed to it
    meta_out,         \* ChunkMeta::new: what it produced
    files,            \* the region coordinates whose file the Loader can open
    regions,          \* Dimension.regions: coordinate -> cached Region object
    loads,            \* number of Loader.region calls made, per coordinate
    allocs,           \* Region objects constructed so far (object identities)
    ncalls,           \* Dimension.region calls made so far
    dlast,            \* the Dimension.region call that ran last and its result
    dir,              \* RegionFileLoader.region_dir: the directory's entries
    listed            \* what RegionFileLoader.list returned

vars == <<data, cursor, overflow_checks, last, meta_in, meta_out,
          files, regions, loads, allocs, ncalls, dlast, dir, listed>>

decoderVars == <<data, cursor, last>>
metaVars == <<meta_in, meta_out>>
dimVars == <<files, regions, loads, allocs, ncalls, dlast>>
dirVars == <<dir, listed>>

----------------------------------------------------------------------------
(* Program constants *)

SECTOR_SIZE == 4096

HEADER_SIZE == 2 * SECTOR_SIZE

\* the region grid is 32 x 32 chunks
GRID == 32

\* a u32 is kept as its two 16-bit halves
U16 == 65536

----------------------------------------------------------------------------
(* Results *)

Ok(v) == [tag |-> "Ok", val |-> v]

Err(e) == [tag |-> "Err", val |-> e]

\* the process aborts (panic!)
Panic(why) == [tag |-> "Panic", val |-> why]

\* no call has been made yet
NotRun == [tag |-> "NotRun", val |-> <<>>]

IsOk(r) == r.tag = "Ok"

IsErr(r, kind) == r.tag = "Err" /\ r.val[1] = kind

InsufficientData == <<"InsufficientData">>

IOError(kind) == <<"IO", kind>>

InvalidOffset(x, z) == <<"InvalidOffset", x, z>>

InvalidChunkMeta == <<"InvalidChunkMeta">>

ChunkNotFound == <<"ChunkNotFound">>

----------------------------------------------------------------------------
(* The byte source: a Cursor over a byte vector, or a File.                *)
(* d.len is its length; d.hdr gives the 4 bytes of the header slots that   *)
(* were written (every other header byte is 0); d.sec gives the bytes at   *)
(* the start of each data sector (the rest of the sector is 0).            *)

ByteAt(d, pos) ==
    IF pos < HEADER_SIZE
    THEN IF (pos \div 4) \in DOMAIN d.hdr THEN d.hdr[pos \div 4][(pos % 4) + 1] ELSE 0
    ELSE LET s == pos \div SECTOR_SIZE
             o == pos % SECTOR_SIZE
         IN IF s \in DOMAIN d.sec /\ o < Len(d.sec[s]) THEN d.sec[s][o + 1] ELSE 0

\* Seek::seek(SeekFrom::Start(pos)): any position may be sought, past the end too
SeekStart(cur, pos) == pos

\* Read::read_exact: n bytes from the cursor, or UnexpectedEof. After a failed
\* read the position is where the source's implementation leaves it: unchanged
\* (older Cursor) or at the end of the data (File, newer Cursor), as
\* d.eofAtEnd says.
read_exact(d, cur, n) ==
    IF n = 0 \/ cur + n <= d.len
    THEN [res |-> Ok([i \in 1..n |-> ByteAt(d, cur + i - 1)]), cur |-> cur + n]
    ELSE [res |-> Err(IOError("UnexpectedEof")),
          cur |-> IF d.eofAtEnd /\ cur < d.len THEN d.len ELSE cur]

\* read_exact into a buffer of `n as usize` bytes, n a u32: a count of 2^30 or
\* more is past the end of every file of the model
read_exact_u32(d, cur, n) ==
    IF n.hi >= U16 \div 4
    THEN [res |-> Err(IOError("UnexpectedEof")),
          cur |-> IF d.eofAtEnd /\ cur < d.len THEN d.len ELSE cur]
    ELSE read_exact(d, cur, n.hi * U16 + n.lo)

----------------------------------------------------------------------------
(* Chunk meta codec *)

Gzip == 1

Zlib == 2

Uncompressed == 3

\* CompressionScheme::try_from(u8), derived by TryFromPrimitive
CompressionScheme_try_from(b) ==
    IF b \in {Gzip, Zlib, Uncompressed} THEN Ok(b) ELSE Err(<<"TryFromPrimitiveError">>)

\* ReadBytesExt::read_u32::<BigEndian>
read_u32_be(b) == [hi |-> b[1] * 256 + b[2], lo |-> b[3] * 256 + b[4]]

\* u32 `v - 1` without overflow checks: wraps at 2^32
wrapping_sub_1(v) ==
    IF v.lo > 0 THEN [hi |-> v.hi, lo |-> v.lo - 1]
    ELSE IF v.hi > 0 THEN [hi |-> v.hi - 1, lo |-> U16 - 1]
    ELSE [hi |-> U16 - 1, lo |-> U16 - 1]

\* u32 order
u32_lt(a, b) == a.hi < b.hi \/ (a.hi = b.hi /\ a.lo < b.lo)

\* ChunkMeta::new. u32 `len - 1`: with overflow checks the subtraction panics
\* on 0, without them it wraps
ChunkMeta_new(bytes, oc) ==
    IF Len(bytes) < 5 THEN Err(InsufficientData)
    ELSE LET len == read_u32_be(bytes)
             scheme == CompressionScheme_try_from(bytes[5])
         IN IF ~IsOk(scheme) THEN Err(InvalidChunkMeta)
            ELSE IF len = [hi |-> 0, lo |-> 0] /\ oc
                 THEN Panic("attempt to subtract with overflow")
            ELSE Ok([compressed_len |-> wrapping_sub_1(len),
                     compression_scheme |-> scheme.val])

----------------------------------------------------------------------------
(* Region decoder: every operation yields its result, the cursor it leaves *)
(* behind and the number of seek/read calls it made on the source.         *)

ChunkLocationMutSeekCurrent(d, cur, x, z) ==
    IF x >= GRID \/ z >= GRID
    THEN [res |-> Err(InvalidOffset(x, z)), cur |-> cur, io |-> 0]
    ELSE LET pos == 4 * ((x % GRID) + (z % GRID) * GRID)
             rd == read_exact(d, cur + pos, 4)
         IN IF ~IsOk(rd.res) THEN [res |-> rd.res, cur |-> rd.cur, io |-> 2]
            ELSE LET buf == rd.res.val
                 IN [res |-> Ok([begin_sector |-> buf[1] * 65536 + buf[2] * 256 + buf[3],
                                 sector_count |-> buf[4], x |-> x, z |-> z]),
                     cur |-> rd.cur, io |-> 2]

ChunkLocationMutLateCheck(d, cur, x, z) ==
    LET pos == 4 * ((x % GRID) + (z % GRID) * GRID)
    IN IF x >= GRID \/ z >= GRID
       THEN [res |-> Err(InvalidOffset(x, z)), cur |-> SeekStart(cur, pos), io |-> 1]
       ELSE ChunkLocationMutSeekCurrent(d, 0, x, z)

\* RegionBuffer::chunk_location. `off |= b << k` on disjoint bits is a sum.
chunk_location(d, cur, x, z) ==
    IF x >= GRID \/ z >= GRID
    THEN [res |-> Err(InvalidOffset(x, z)), cur |-> cur, io |-> 0]
    ELSE LET pos == 4 * ((x % GRID) + (z % GRID) * GRID)
             rd == read_exact(d, SeekStart(cur, pos), 4)
         IN IF ~IsOk(rd.res) THEN [res |-> rd.res, cur |-> rd.cur, io |-> 2]
            ELSE LET buf == rd.res.val
                 IN [res |-> Ok([begin_sector |-> buf[1] * 65536 + buf[2] * 256 + buf[3],
                                 sector_count |-> buf[4], x |-> x, z |-> z]),
                     cur |-> rd.cur, io |-> 2]

\* RegionBuffer::load_raw_chunk
load_raw_chunk(d, cur, offset, oc) ==
    LET r1 == read_exact(d, SeekStart(cur, offset.begin_sector * SECTOR_SIZE), 5)
    IN IF ~IsOk(r1.res) THEN [res |-> r1.res, cur |-> r1.cur, io |-> 2]
       ELSE LET metadata == ChunkMeta_new(r1.res.val, oc)
            IN IF ~IsOk(metadata) THEN [res |-> metadata, cur |-> r1.cur, io |-> 2]
               ELSE LET r2 == read_exact_u32(d, r1.cur, metadata.val.compressed_len)
                    IN IF ~IsOk(r2.res) THEN [res |-> r2.res, cur |-> r2.cur, io |-> 3]
                       ELSE [res |-> Ok(r1.res.val \o r2.res.val), cur |-> r2.cur, io |-> 3]

\* the `begin_sector != 0 && sector_count != 0` test of load_raw_chunk_at and
\* for_each_chunk
present(location) == location.begin_sector # 0 /\ location.sector_count # 0

\* RegionBuffer::load_raw_chunk_at
load_raw_chunk_at(d, cur, x, z, oc) ==
    LET l == chunk_location(d, cur, x, z)
    IN IF ~IsOk(l.res) THEN l
       ELSE IF present(l.res.val)
            THEN LET r == load_raw_chunk(d, l.cur, l.res.val, oc)
                 IN [r EXCEPT !.io = l.io + r.io]
            ELSE [res |-> Err(ChunkNotFound), cur |-> l.cur, io |-> l.io]

\* flate2's ZlibDecoder read to the end: a stream <<120, b>> (0x78 is zlib's
\* header byte) inflates to <<b>>, anything else is a corrupt stream
ZlibDecoder_read_to_end(inbuf) ==
    IF Len(inbuf) = 2 /\ inbuf[1] = 120 THEN Ok(<<inbuf[2]>>)
    ELSE Err(IOError("InvalidInput"))

\* decompress_chunk
decompress_chunk(bytes, oc) ==
    LET meta == ChunkMeta_new(bytes, oc)
    IN IF ~IsOk(meta) THEN meta
       ELSE IF meta.val.compression_scheme = Zlib
            THEN ZlibDecoder_read_to_end(SubSeq(bytes, 6, Len(bytes)))
            ELSE Panic("unknown compression scheme (gzip?)")

\* RegionBuffer::load_chunk
load_chunk(d, cur, x, z, oc) ==
    LET raw == load_raw_chunk_at(d, cur, x, z, oc)
    IN IF ~IsOk(raw.res) THEN raw
       ELSE [raw EXCEPT !.res = decompress_chunk(raw.res.val, oc)]

\* for_each_chunk, first loop: `for z in 0..32` of one x. acc carries the
\* cursor, the locations pushed so far and the first failure, if any.
RECURSIVE scan_z(_, _, _, _)
scan_z(d, acc, x, z) ==
    IF z = GRID \/ ~IsOk(acc.res) THEN acc
    ELSE LET l == chunk_location(d, acc.cur, x, z)
         IN scan_z(d,
                   [res |-> IF IsOk(l.res) THEN acc.res ELSE l.res,
                    cur |-> l.cur,
                    io |-> acc.io + l.io,
                    offsets |-> IF IsOk(l.res) /\ present(l.res.val)
                                THEN Append(acc.offsets, l.res.val)
                                ELSE acc.offsets],
                   x, z + 1)

\* for_each_chunk, first loop: `for x in 0..32`
RECURSIVE scan_x(_, _, _)
scan_x(d, acc, x) ==
    IF x = GRID \/ ~IsOk(acc.res) THEN acc
    ELSE scan_x(d, scan_z(d, acc, x, 0), x + 1)

\* where a stable sort by descending begin_sector puts loc in the sorted s
RECURSIVE insert_desc(_, _)
insert_desc(s, loc) ==
    IF s = <<>> THEN <<loc>>
    ELSE IF s[Len(s)].begin_sector >= loc.begin_sector THEN Append(s, loc)
    ELSE Append(insert_desc(SubSeq(s, 1, Len(s) - 1), loc), s[Len(s)])

\* offsets.sort_by(|o1, o2| o2.begin_sector.cmp(&o1.begin_sector)): stable
RECURSIVE sort_by_desc(_)
sort_by_desc(offsets) ==
    IF offsets = <<>> THEN <<>>
    ELSE insert_desc(sort_by_desc(SubSeq(offsets, 1, Len(offsets) - 1)),
                     offsets[Len(offsets)])

\* for_each_chunk, second loop: load each chunk and hand it to the callback
RECURSIVE visit(_, _, _, _, _)
visit(d, acc, offsets, i, oc) ==
    IF i > Len(offsets) THEN acc
    ELSE LET offset == offsets[i]
             chunk == load_chunk(d, acc.cur, offset.x, offset.z, oc)
         IN IF ~IsOk(chunk.res)
            THEN [acc EXCEPT !.res = chunk.res, !.cur = chunk.cur, !.io = @ + chunk.io]
            ELSE visit(d,
                       [acc EXCEPT !.cur = chunk.cur, !.io = @ + chunk.io,
                                   !.calls = Append(@, <<offset.x, offset.z, chunk.res.val>>)],
                       offsets, i + 1, oc)

\* RegionBuffer::for_each_chunk; calls are the callback's invocations, in order
for_each_chunk(d, cur, oc) ==
    LET built == scan_x(d, [res |-> Ok(<<>>), cur |-> cur, io |-> 0, offsets |-> <<>>],
                        0)
    IN IF ~IsOk(built.res)
       THEN [res |-> built.res, cur |-> built.cur, io |-> built.io, calls |-> <<>>]
       ELSE visit(d, [res |-> Ok(<<>>), cur |-> built.cur, io |-> built.io, calls |-> <<>>],
                  sort_by_desc(built.offsets), 1, oc)

\* `x.0 as usize` of an isize coordinate: a negative one wraps to the top of
\* the range (of the model's 31-bit integers here)
as_usize(v) == IF v < 0 THEN 2147483647 + v + 1 ELSE v

\* Region::chunk for RegionBuffer; decodes is whether fastnbt's from_bytes
\* accepts the decompressed bytes
chunk(d, cur, x, z, oc, decodes) ==
    LET loc == chunk_location(d, cur, as_usize(x), as_usize(z))
    IN IF loc.res.tag = "Panic" THEN loc
       ELSE IF ~IsOk(loc.res) THEN [loc EXCEPT !.res = Ok(<<"None">>)]
       ELSE LET c == load_chunk(d, loc.cur, loc.res.val.x, loc.res.val.z, oc)
                r == [c EXCEPT !.io = loc.io + c.io]
            IN IF r.res.tag = "Panic" THEN r
               ELSE IF ~IsOk(r.res) \/ ~decodes THEN [r EXCEPT !.res = Ok(<<"None">>)]
               ELSE [r EXCEPT !.res = Ok(<<"Some", r.res.val>>)]

----------------------------------------------------------------------------
(* The region files the decoder is run on *)

\* header slots that are written, (0,0) and (31,0); every other slot is 0
SlotA == 0 + GRID * 0

SlotB == GRID - 1

\* 3-byte big-endian begin sector, 1-byte sector count
EntriesA ==
    { <<0, 0, 0, 0>>, <<0, 0, 2, 1>>, <<0, 0, 3, 1>>, <<0, 0, 2, 0>>,
      <<0, 0, 0, 1>>, <<1, 0, 2, 1>> }

EntriesB == { <<0, 0, 2, 1>>, <<0, 0, 3, 1>> }

\* 4-byte big-endian length, scheme tag, payload
Blobs ==
    { <<0, 0, 0, 3, 2, 120, 7>>,   \* zlib, inflates to <<7>>
      <<0, 0, 0, 3, 1, 31, 139>>,  \* gzip
      <<0, 0, 0, 3, 3, 5, 5>>,     \* uncompressed
      <<0, 0, 0, 3, 9, 0, 0>>,     \* unknown scheme tag
      <<0, 0, 0, 3, 2, 1, 1>>,     \* zlib, corrupt stream
      <<0, 0, 0, 0, 2>>,           \* on-disk length 0
      <<0, 1, 0, 0, 2>> }          \* length running past the end of the file

BlobsLast == { <<0, 0, 0, 3, 2, 120, 8>>, <<0, 0, 0, 3, 9, 0, 0>> }

\* a region file of four sectors: the header and two chunk sectors
FullLen == 4 * SECTOR_SIZE

Images ==
    { [len |-> FullLen, eofAtEnd |-> e,
       hdr |-> (SlotA :> a) @@ (SlotB :> b), sec |-> (2 :> b2) @@ (3 :> b3)] :
        e \in BOOLEAN, a \in EntriesA, b \in EntriesB, b2 \in Blobs, b3 \in BlobsLast }
    \cup
    \* Builder::build of one location: one padded sector; build_unpadded: 4 bytes
    { [len |-> n, eofAtEnd |-> e, hdr |-> (SlotA :> a), sec |-> <<>>] :
        e \in BOOLEAN, n \in {4, SECTOR_SIZE}, a \in {<<0, 0, 2, 1>>} }

\* how far past the grid the coordinates of the calls go
MaxOver == 0

\* coordinates the operations are called with
Coords == {0, GRID - 1} \cup (GRID .. GRID + MaxOver)

\* CCoord is signed
CCoords == {-1} \cup Coords

NoOp == [op |-> "none", x |-> 0, z |-> 0, res |-> Ok(<<>>), io |-> 0,
         moved |-> FALSE, calls |-> <<>>]

\* the process is gone once an operation panicked
aborted == last.res.tag = "Panic"

\* an operation ran: its result is recorded and the cursor is where it left it
Ran(op, x, z, r, cs) ==
    /\ last' = [op |-> op, x |-> x, z |-> z, res |-> r.res, io |-> r.io,
                moved |-> r.cur # cursor, calls |-> cs]
    /\ cursor' = r.cur
    /\ UNCHANGED <<data, overflow_checks, metaVars, dimVars, dirVars>>

DoChunkLocation ==
    /\ ~aborted
    /\ \E x \in Coords, z \in Coords :
         \E r \in {chunk_location(data, cursor, x, z)} :
           Ran("chunk_location", x, z, r, <<>>)

DoLoadRawChunkAt ==
    /\ ~aborted
    /\ \E x \in Coords, z \in Coords :
         \E r \in {load_raw_chunk_at(data, cursor, x, z, overflow_checks)} :
           Ran("load_raw_chunk_at", x, z, r, <<>>)

DoLoadChunk ==
    /\ ~aborted
    /\ \E x \in Coords, z \in Coords :
         \E r \in {load_chunk(data, cursor, x, z, overflow_checks)} :
           Ran("load_chunk", x, z, r, <<>>)

DoForEachChunk ==
    /\ ~aborted
    /\ \E r \in {for_each_chunk(data, cursor, overflow_checks)} :
         Ran("for_each_chunk", 0, 0, r, r.calls)

DoChunk ==
    /\ ~aborted
    /\ \E x \in CCoords, z \in CCoords, decodes \in BOOLEAN :
         \E r \in {chunk(data, cursor, x, z, overflow_checks, decodes)} :
           Ran("chunk", x, z, r, <<>>)

MetaIdle == meta_in = <<>> /\ meta_out = NotRun

DimIdle ==
    /\ files = {} /\ regions = <<>> /\ loads = <<>>
    /\ allocs = 0 /\ ncalls = 0 /\ dlast = <<>>

DirIdle == dir = [readable |-> TRUE, entries |-> {}] /\ listed = NotRun

DecoderIdle ==
    /\ data = [len |-> 0, eofAtEnd |-> FALSE, hdr |-> <<>>, sec |-> <<>>]
    /\ cursor = 0 /\ last = NoOp

\* the region files the single-chunk operations are run on
DecoderImages ==
    { d \in Images :
        d.len = FullLen => d.sec[3][5] = Zlib /\ d.hdr[SlotB] = <<0, 0, 3, 1>> }

\* the region files the whole-file scan is run on
ScanImages ==
    { d \in Images :
        /\ d.hdr[SlotA] \in { <<0, 0, 0, 0>>, <<0, 0, 2, 1>>, <<0, 0, 3, 1>>, <<0, 0, 2, 0>> }
        /\ d.len = FullLen =>
              /\ d.eofAtEnd
              /\ d.sec[2][5] # Uncompressed
              /\ d.sec[2][2] = 0
              /\ d.sec[2][4] # 0 }

\* RegionBuffer::new over a region file, under either build profile
InitDecoder(images) ==
    /\ data \in images
    /\ cursor = 0
    /\ overflow_checks \in BOOLEAN
    /\ last = NoOp
    /\ MetaIdle /\ DimIdle /\ DirIdle

Init == InitDecoder(DecoderImages)

\* single-chunk operations of the decoder
Next ==
    \/ DoChunkLocation
    \/ DoLoadRawChunkAt
    \/ DoLoadChunk
    \/ DoChunk

Spec == Init /\ [][Next]_vars

\* the whole-file scan, between location lookups
NextScan ==
    \/ DoForEachChunk
    \/ DoChunkLocation

InitScan == InitDecoder(ScanImages)

SpecScan == InitScan /\ [][NextScan]_vars

----------------------------------------------------------------------------
(* Properties of the region decoder *)

\* the 4 bytes written to the header slot of (x, z)
HeaderEntry(d, x, z) ==
    IF (x + GRID * z) \in DOMAIN d.hdr THEN d.hdr[x + GRID * z] ELSE <<0, 0, 0, 0>>

\* the source holds the whole table of 1024 locations
FullHeader(d) == d.len >= 4 * GRID * GRID

InGrid(x, z) == x \in 0..(GRID - 1) /\ z \in 0..(GRID - 1)

\* C3: load_chunk on a chunk whose meta prefix carries scheme tag 1 (Gzip) or
\* 3 (Uncompressed) returns the error UnsupportedCompression and does not
\* abort the process.
C3_UnsupportedSchemeIsError ==
    LET raw == load_raw_chunk_at(data, 0, last.x, last.z, overflow_checks).res
    IN (last.op = "load_chunk" /\ IsOk(raw) /\ raw.val[5] \in {Gzip, Uncompressed})
       => IsErr(last.res, "UnsupportedCompression")

\* C4: a slot is unoccupied exactly when begin_sector and sector_count are
\* both 0: load_raw_chunk_at fails with ChunkNotFound (and chunk yields no
\* chunk) for a slot written as (0,0), and for any other slot it does not
\* report ChunkNotFound but goes on to seek to and read the chunk.
C4_UnoccupiedIffBothZero ==
    LET e == HeaderEntry(data, last.x, last.z)
    IN /\ (last.op = "load_raw_chunk_at" /\ InGrid(last.x, last.z) /\ FullHeader(data))
          => IF e = <<0, 0, 0, 0>>
             THEN last.res = Err(ChunkNotFound)
             ELSE ~IsErr(last.res, "ChunkNotFound") /\ last.io > 2
       /\ (last.op = "chunk" /\ InGrid(last.x, last.z) /\ FullHeader(data)
             /\ e = <<0, 0, 0, 0>>)
          => last.res = Ok(<<"None">>)

\* C7: for (x, z) inside the grid and a source holding the whole header,
\* chunk_location returns the 3-byte big-endian offset and the 1-byte count
\* stored at byte 4 * (x + 32 * z), with the same x and z, wherever earlier
\* operations left the cursor.
C7_LocationIsTheHeaderSlot ==
    LET e == HeaderEntry(data, last.x, last.z)
    IN (last.op = "chunk_location" /\ InGrid(last.x, last.z) /\ FullHeader(data))
       => last.res = Ok([begin_sector |-> e[1] * 65536 + e[2] * 256 + e[3],
                         sector_count |-> e[4], x |-> last.x, z |-> last.z])

\* chunk_location(31, 0) decoded a written slot after the cursor had been
\* moved away from it
C7_Witness ==
    /\ last.op = "chunk_location" /\ last.x = GRID - 1 /\ last.z = 0
    /\ IsOk(last.res) /\ last.res.val.begin_sector = 3 /\ last.res.val.sector_count = 1
    /\ last.moved

\* C8: chunk_location with x >= 32 or z >= 32 fails with InvalidOffset(x, z)
\* carrying the coordinates given, without any seek or read: the cursor stays
\* where it was.
C8_InvalidOffsetBeforeIO ==
    (last.op = "chunk_location" /\ (last.x >= GRID \/ last.z >= GRID))
    => /\ last.res = Err(InvalidOffset(last.x, last.z))
       /\ last.io = 0
       /\ ~last.moved

\* chunk_location(0, 32) was refused with the cursor away from the start
C8_Witness ==
    /\ last.op = "chunk_location" /\ last.x = 0 /\ last.z = GRID
    /\ IsErr(last.res, "InvalidOffset")
    /\ cursor > 0

\* the location a header entry decodes to
LocationOf(e, x, z) ==
    [begin_sector |-> e[1] * 65536 + e[2] * 256 + e[3], sector_count |-> e[4],
     x |-> x, z |-> z]

\* the chunk a header entry points to is read and decompressed without failure
Decodes(d, e, oc) ==
    LET raw == load_raw_chunk(d, 0, LocationOf(e, 0, 0), oc).res
    IN IsOk(raw) /\ IsOk(decompress_chunk(raw.val, oc))

\* how often the callback was invoked for (x, z)
Invocations(calls, x, z) ==
    Cardinality({ i \in 1..Len(calls) : calls[i][1] = x /\ calls[i][2] = z })

\* C5: on a region whose occupied chunks all decode, for_each_chunk invokes
\* the callback exactly once for every coordinate whose header slot is not
\* (0,0) and never for a slot that is (0,0), whatever the order of the begin
\* sectors.
C5_VisitsEveryOccupiedSlotOnce ==
    (/\ last.op = "for_each_chunk"
     /\ FullHeader(data)
     /\ \A x \in 0..(GRID - 1), z \in 0..(GRID - 1) :
          HeaderEntry(data, x, z) # <<0, 0, 0, 0>>
          => Decodes(data, HeaderEntry(data, x, z), overflow_checks))
    => /\ last.res = Ok(<<>>)
       /\ \A x \in 0..(GRID - 1), z \in 0..(GRID - 1) :
            Invocations(last.calls, x, z)
              = IF HeaderEntry(data, x, z) # <<0, 0, 0, 0>> THEN 1 ELSE 0

\* the chunks for_each_chunk goes through, in its order
ScanOrder(d) ==
    sort_by_desc(scan_x(d, [res |-> Ok(<<>>), cur |-> 0, io |-> 0, offsets |-> <<>>],
                        0).offsets)

\* what loading the i-th chunk of the scan gives
Loaded(d, order, i, oc) == load_chunk(d, 0, order[i].x, order[i].z, oc).res

\* C6: for_each_chunk stops at the first chunk that fails (location lookup,
\* read, meta or decompression): it returns that failure as its result, after
\* invoking the callback for the chunks before it and for no other; a scan
\* without a failure returns success.
C6_StopsAtFirstFailure ==
    (last.op = "for_each_chunk" /\ FullHeader(data))
    => LET order == ScanOrder(data)
           failing == { i \in 1..Len(order) :
                          ~IsOk(Loaded(data, order, i, overflow_checks)) }
           k == IF failing = {} THEN Len(order) + 1
                ELSE CHOOSE i \in failing : \A j \in failing : i <= j
       IN /\ Len(last.calls) = k - 1
          /\ \A i \in 1..(k - 1) : last.calls[i][1] = order[i].x
                                   /\ last.calls[i][2] = order[i].z
          /\ IF failing = {} THEN last.res = Ok(<<>>)
             ELSE /\ last.res.tag = "Err"
                  /\ last.res = Loaded(data, order, k, overflow_checks)

\* Companion of C5: with a slot taken as occupied when both its fields are
\* nonzero (the test the code makes), the scan does visit every occupied slot
\* once and no other.
ScanVisitsPresentSlotsOnce ==
    (/\ last.op = "for_each_chunk"
     /\ FullHeader(data)
     /\ \A x \in 0..(GRID - 1), z \in 0..(GRID - 1) :
          present(LocationOf(HeaderEntry(data, x, z), x, z))
          => Decodes(data, HeaderEntry(data, x, z), overflow_checks))
    => /\ last.res = Ok(<<>>)
       /\ \A x \in 0..(GRID - 1), z \in 0..(GRID - 1) :
            Invocations(last.calls, x, z)
              = IF present(LocationOf(HeaderEntry(data, x, z), x, z)) THEN 1 ELSE 0

\* Companion of C6: a scan that does not abort the process stops at its first
\* failing chunk and returns that failure.
ScanReturnsFirstError ==
    last.res.tag # "Panic" => C6_StopsAtFirstFailure

----------------------------------------------------------------------------
(* Chunk meta codec on its own *)

\* bytes the length field is made of
LenBytes == {0, 1, 255}

\* scheme tags tried
TagBytes == {0, Gzip, Zlib, Uncompressed, 4, 9}

MetaInputs ==
    { <<b1, b2, b3, b4, t>> : b1 \in LenBytes, b2 \in LenBytes, b3 \in LenBytes,
                              b4 \in LenBytes, t \in TagBytes }
    \cup { <<b1, 0, 0, b4, t, 120>> : b1 \in LenBytes, b4 \in LenBytes, t \in TagBytes }
    \cup { <<>>, <<0>>, <<0, 0, 0, 1>>, <<0, 0, 0, 2>> }

DoChunkMetaNew ==
    /\ meta_out.tag # "Panic"
    /\ \E bytes \in MetaInputs :
         /\ meta_in' = bytes
         /\ meta_out' = ChunkMeta_new(bytes, overflow_checks)
    /\ UNCHANGED <<decoderVars, overflow_checks, dimVars, dirVars>>

InitMeta ==
    /\ overflow_checks \in BOOLEAN
    /\ MetaIdle /\ DecoderIdle /\ DimIdle /\ DirIdle

NextMeta == DoChunkMetaNew

SpecMeta == InitMeta /\ [][NextMeta]_vars

\* C9: for an input of at least 5 bytes with a scheme tag in {1,2,3} and any
\* on-disk length L, 0 included, ChunkMeta::new ends with a typed result and
\* never aborts; on success compressed_len is L - 1 as a true, unwrapped u32,
\* so compressed_len < L.
C9_MetaLenMinusOneNeverAborts ==
    (/\ meta_out.tag # "NotRun"
     /\ Len(meta_in) >= 5
     /\ meta_in[5] \in {Gzip, Zlib, Uncompressed})
    => LET L == [hi |-> meta_in[1] * 256 + meta_in[2],
                 lo |-> meta_in[3] * 256 + meta_in[4]]
       IN /\ meta_out.tag \in {"Ok", "Err"}
          /\ IsOk(meta_out)
             => LET c == meta_out.val.compressed_len
                IN /\ \/ c.hi = L.hi /\ c.lo + 1 = L.lo
                      \/ c.hi + 1 = L.hi /\ c.lo = U16 - 1 /\ L.lo = 0
                   /\ u32_lt(c, L)

\* Companion of C9: for every on-disk length but 0 the claim's statement holds.
MetaLenMinusOneFromOne ==
    (Len(meta_in) >= 5 /\ read_u32_be(meta_in) # [hi |-> 0, lo |-> 0])
    => C9_MetaLenMinusOneNeverAborts

----------------------------------------------------------------------------
(* Dimension: a cache of Regions over a RegionLoader *)

\* region coordinates that are asked for (RCoord is signed)
RCoords == { <<0, 0>>, <<-1, 0>>, <<0, 1>> }

\* Dimension.region calls in a run
MaxCalls == 4

\* Option<Rc<Region>>: 0 is None, a positive number is the Region object
None == 0

\* RegionFileLoader::region: a new RegionBuffer over the opened file, or None
\* when the file cannot be opened; al counts the objects built so far
Loader_region(fs, al, c) == IF c \in fs THEN al + 1 ELSE None

DimensionRegionMutNoCache(regs, fs, al, c) ==
    LET r == Loader_region(fs, al, c)
    IN IF r = None
       THEN [regions |-> regs, res |-> None, loader |-> TRUE, allocs |-> al]
       ELSE [regions |-> [regs EXCEPT ![c] = r], res |-> r, loader |-> TRUE,
             allocs |-> al + 1]

DimensionRegionMutNegativeCache(regs, fs, al, c) ==
    IF regs[c] # None
    THEN [regions |-> regs, res |-> IF regs[c] < 0 THEN None ELSE regs[c],
          loader |-> FALSE, allocs |-> al]
    ELSE LET r == Loader_region(fs, al, c)
         IN IF r = None
            THEN [regions |-> [regs EXCEPT ![c] = -1], res |-> None, loader |-> TRUE,
                  allocs |-> al]
            ELSE [regions |-> [regs EXCEPT ![c] = r], res |-> r, loader |-> TRUE,
                  allocs |-> al + 1]

\* Dimension::region: the cache after the call, the handle returned, whether
\* the Loader was invoked
Dimension_region(regs, fs, al, c) ==
    IF regs[c] # None
    THEN [regions |-> regs, res |-> regs[c], loader |-> FALSE, allocs |-> al]
    ELSE LET r == Loader_region(fs, al, c)
         IN IF r = None
            THEN [regions |-> regs, res |-> None, loader |-> TRUE, allocs |-> al]
            ELSE [regions |-> [regs EXCEPT ![c] = r], res |-> r, loader |-> TRUE,
                  allocs |-> al + 1]

DoRegion ==
    /\ ncalls < MaxCalls
    /\ \E c \in RCoords :
         \E r \in {Dimension_region(regions, files, allocs, c)} :
           /\ regions' = r.regions
           /\ allocs' = r.allocs
           /\ loads' = IF r.loader THEN [loads EXCEPT ![c] = @ + 1] ELSE loads
           /\ dlast' = [c |-> c, res |-> r.res, loader |-> r.loader]
    /\ ncalls' = ncalls + 1
    /\ UNCHANGED <<files, decoderVars, overflow_checks, metaVars, dirVars>>

\* a region file appears in the directory
CreateFile ==
    /\ \E c \in RCoords \ files : files' = files \cup {c}
    /\ UNCHANGED <<regions, loads, allocs, ncalls, dlast,
                   decoderVars, overflow_checks, metaVars, dirVars>>

\* a region file disappears
RemoveFile ==
    /\ \E c \in files : files' = files \ {c}
    /\ UNCHANGED <<regions, loads, allocs, ncalls, dlast,
                   decoderVars, overflow_checks, metaVars, dirVars>>

\* Dimension::new
InitDimension ==
    /\ files \in SUBSET RCoords
    /\ regions = [c \in RCoords |-> None]
    /\ loads = [c \in RCoords |-> 0]
    /\ allocs = 0
    /\ ncalls = 0
    /\ dlast = [c |-> <<0, 0>>, res |-> None, loader |-> FALSE]
    /\ overflow_checks = FALSE
    /\ DecoderIdle /\ MetaIdle /\ DirIdle

NextDimension ==
    \/ DoRegion
    \/ CreateFile
    \/ RemoveFile

SpecDimension == InitDimension /\ [][NextDimension]_vars

\* C1: once region(rx, rz) has returned a Region, every later region(rx, rz)
\* returns that same cached Region object and the Loader is not invoked for
\* the coordinate again.
C1_CachedRegionIsReused ==
    [][\A c \in RCoords :
         regions[c] # None
         => /\ regions'[c] = regions[c]
            /\ loads'[c] = loads[c]
            /\ (ncalls' # ncalls /\ dlast'.c = c)
               => dlast'.res = regions[c] /\ ~dlast'.loader]_vars

\* a call was served from the cache, after the file it came from was removed
C1_Witness ==
    /\ ncalls >= 2
    /\ regions[dlast.c] # None /\ dlast.res = regions[dlast.c] /\ ~dlast.loader
    /\ loads[dlast.c] = 1
    /\ dlast.c \notin files

\* C2: a call that misses the cache invokes the Loader; when the Loader yields
\* absent the call returns absent and the cache is left as it was, so a later
\* call for the coordinate invokes the Loader again, and when the Loader
\* yields a Region the call returns it and caches it.
C2_NoNegativeCaching ==
    [][(ncalls' # ncalls /\ regions[dlast'.c] = None)
       => /\ dlast'.loader
          /\ loads'[dlast'.c] = loads[dlast'.c] + 1
          /\ IF dlast'.c \in files
             THEN /\ dlast'.res # None
                  /\ regions' = [regions EXCEPT ![dlast'.c] = dlast'.res]
             ELSE /\ dlast'.res = None
                  /\ regions' = regions]_vars

\* a coordinate that was absent at first was loaded and cached by a later call
C2_Witness ==
    /\ loads[dlast.c] >= 2
    /\ dlast.loader /\ dlast.res # None /\ regions[dlast.c] = dlast.res

----------------------------------------------------------------------------
(* RegionFileLoader::list. A file name is its sequence of characters. *)

Digits == {"0", "1", "2", "3", "4", "5", "6", "7", "8", "9"}

DigitValue(ch) ==
    CASE ch = "0" -> 0 [] ch = "1" -> 1 [] ch = "2" -> 2 [] ch = "3" -> 3
      [] ch = "4" -> 4 [] ch = "5" -> 5 [] ch = "6" -> 6 [] ch = "7" -> 7
      [] ch = "8" -> 8 [] ch = "9" -> 9

\* str::split('.'): the pieces between the dots, empty ones included
RECURSIVE split_dot(_)
split_dot(name) ==
    IF \A i \in 1..Len(name) : name[i] # "."
    THEN <<name>>
    ELSE LET i == CHOOSE k \in 1..Len(name) :
                    name[k] = "." /\ \A j \in 1..(k - 1) : name[j] # "."
         IN <<SubSeq(name, 1, i - 1)>> \o split_dot(SubSeq(name, i + 1, Len(name)))

\* the value of a sequence of digits
RECURSIVE digits_value(_)
digits_value(ds) ==
    IF ds = <<>> THEN 0
    ELSE 10 * digits_value(SubSeq(ds, 1, Len(ds) - 1)) + DigitValue(ds[Len(ds)])

\* str::parse::<isize>: an optional sign, then one digit or more
parse_isize(str) ==
    LET signed == str # <<>> /\ str[1] \in {"-", "+"}
        ds == IF signed THEN SubSeq(str, 2, Len(str)) ELSE str
    IN IF ds = <<>> \/ \E i \in 1..Len(ds) : ds[i] \notin Digits
       THEN Err(<<"ParseIntError">>)
       ELSE Ok(IF signed /\ str[1] = "-" THEN 0 - digits_value(ds) ELSE digits_value(ds))

\* Path::extension: what follows the last dot of the file name; none when
\* there is no dot, or only a leading one
extension(name) ==
    LET dots == { i \in 2..Len(name) : name[i] = "." }
    IN IF dots = {} THEN Err(<<"None">>)
       ELSE LET i == CHOOSE k \in dots : \A j \in dots : j <= k
            IN Ok(SubSeq(name, i + 1, Len(name)))

\* coords_from_region: the first piece is skipped, the next two are parsed
coords_from_region(name) ==
    LET parts == split_dot(name)
    IN IF Len(parts) < 3 THEN Err(<<"None">>)
       ELSE LET x == parse_isize(parts[2])
                z == parse_isize(parts[3])
            IN IF ~IsOk(x) \/ ~IsOk(z) THEN Err(<<"None">>)
               ELSE Ok(<<x.val, z.val>>)

MCA == <<"m", "c", "a">>

\* the entries list keeps, before their names are parsed
kept(entries) ==
    { e \in entries :
        /\ e.is_file
        /\ extension(e.name) = Ok(MCA)
        /\ e.len > 0 }

\* RegionFileLoader::list: the coordinates collected, each with the number of
\* times it occurs in the vector returned (read_dir's order is not specified)
list(d) ==
    IF ~d.readable THEN Err(<<"LoaderError">>)
    ELSE LET named == { e \in kept(d.entries) : IsOk(coords_from_region(e.name)) }
             found == { coords_from_region(e.name).val : e \in named }
         IN Ok([c \in found |->
                 Cardinality({ e \in named : coords_from_region(e.name).val = c })])

File(name, len) == [name |-> name, is_file |-> TRUE, len |-> len]

Directory(name) == [name |-> name, is_file |-> FALSE, len |-> 0]

\* what the region directory may hold
Candidates ==
    { File(<<"r", ".", "1", ".", "2", ".", "m", "c", "a">>, 1),
      File(<<"r", ".", "-", "3", ".", "4", ".", "m", "c", "a">>, 1),
      File(<<"r", ".", "0", ".", "0", ".", "m", "c", "a">>, 0),
      File(<<"x", ".", "5", ".", "6", ".", "m", "c", "a">>, 1),
      File(<<"r", ".", "7", ".", "8", ".", "9", ".", "m", "c", "a">>, 1),
      File(<<"r", ".", "1", ".", "m", "c", "a">>, 1),
      File(<<"r", ".", "a", ".", "b", ".", "m", "c", "a">>, 1),
      File(<<"r", ".", "2", ".", "2", ".", "t", "x", "t">>, 1),
      Directory(<<"r", ".", "3", ".", "3", ".", "m", "c", "a">>) }

DoList ==
    /\ listed' = list(dir)
    /\ UNCHANGED <<dir, decoderVars, overflow_checks, metaVars, dimVars>>

\* RegionFileLoader::new over a directory
InitLoader ==
    /\ \E es \in SUBSET Candidates, r \in BOOLEAN :
         dir = [readable |-> r, entries |-> IF r THEN es ELSE {}]
    /\ listed = NotRun
    /\ overflow_checks = FALSE
    /\ DecoderIdle /\ MetaIdle /\ DimIdle

NextLoader == DoList

SpecLoader == InitLoader /\ [][NextLoader]_vars

\* a file name of the form r.<x>.<z>.mca, <x> and <z> signed decimal integers
IsInteger(str) ==
    LET ds == IF str # <<>> /\ str[1] = "-" THEN SubSeq(str, 2, Len(str)) ELSE str
    IN ds # <<>> /\ \A i \in 1..Len(ds) : ds[i] \in Digits

IsRegionFileName(name) ==
    LET parts == split_dot(name)
    IN /\ Len(parts) = 4
       /\ parts[1] = <<"r">>
       /\ IsInteger(parts[2]) /\ IsInteger(parts[3])
       /\ parts[4] = MCA

\* C10: for a readable directory, list returns (x, z) for exactly the entries
\* that are regular files of more than zero bytes named r.<x>.<z>.mca; every
\* other entry is left out.
C10_ListsExactlyRegionFiles ==
    (listed.tag # "NotRun" /\ dir.readable)
    => /\ IsOk(listed)
       /\ LET regionFiles == { e \in dir.entries :
                                 e.is_file /\ e.len > 0 /\ IsRegionFileName(e.name) }
          IN /\ DOMAIN listed.val
                  = { <<parse_isize(split_dot(e.name)[2]).val,
                        parse_isize(split_dot(e.name)[3]).val>> : e \in regionFiles }
             /\ \A c \in DOMAIN listed.val : listed.val[c] = 1

\* Companion of C10: the directory {r.1.2.mca, r.-3.4.mca, empty r.0.0.mca}
\* lists as {(1,2), (-3,4)}, and a directory without files named like
\* x.5.6.mca or r.7.8.9.mca lists as the claim says.
ListOfPlainDirectory ==
    /\ (listed.tag # "NotRun"
        /\ dir.entries = { e \in Candidates : e.name[3] \in {"1", "-", "0"}
                                              /\ Len(split_dot(e.name)) = 4 })
       => listed = Ok((<<1, 2>> :> 1) @@ (<<-3, 4>> :> 1))
    /\ (\A e \in dir.entries : e.name[1] = "r" /\ Len(split_dot(e.name)) <= 4)
       => C10_ListsExactlyRegionFiles

\* the directory of the example was listed
ListOfPlainDirectoryReached ==
    /\ listed.tag # "NotRun"
    /\ Cardinality(dir.entries) = 3
    /\ dir.entries = { e \in Candidates : e.name[3] \in {"1", "-", "0"}
                                          /\ Len(split_dot(e.name)) = 4 }

====
